---- MODULE Spec2Model ----
(***************************************************************************)
(* Liquidity reallocation planners of the public-allocator scripts.        *)
(*                                                                         *)
(* Four script variants plan withdrawals towards a target market:          *)
(*   "api"    scripts/apiBundler.ts            extractDataForReallocation  *)
(*   "ethers" the ethers SDK script            processWithdrawals          *)
(*   "sim"    scripts/api/apiPublicAllocatorSimulated.ts processWithdrawals*)
(*   "viem"   scripts/sdks/viem/sdkBundler.ts  processReallocations        *)
(* Each run is: Start (fetch + set-up), the greedy walk one allocation at  *)
(* a time, the summary, and the encoding of one action per vault.          *)
(*                                                                         *)
(* Amounts are bigint in the scripts.  They are written here on a          *)
(* compressed scale: the integer  h * Two53 + l  (0 <= l < Two53) stands   *)
(* for the amount  h * 2^53 + l.  Addition, subtraction and comparison of  *)
(* the amounts that occur agree on both scales; the only operation that    *)
(* looks at the magnitude, Number(), decodes the scale.                    *)
(***************************************************************************)
EXTENDS Integers, Sequences, FiniteSets, TLC

\* ------------------------------------------------------------------ bounds
MaxSources == 2
Two53 == 100000

\* ------------------------------------------------------- program constants
BUFFER_FACTOR_NUMERATOR == 1001
BUFFER_FACTOR_DENOMINATOR == 1000
\* DEFAULT_SUPPLY_TARGET_UTILIZATION = 90_5000000000000000n over WAD = 1e18,
\* kept as the reduced fraction 181 / 200 (= 0.905) so that wDivDown and
\* the utilization comparison are computed exactly.
TARGET_UTILIZATION_NUM == 181
TARGET_UTILIZATION_DEN == 200

\* ------------------------------------------------------------ input domains
Variants == {"api", "ethers", "sim", "viem"}
Vaults == {1, 2}
Markets == {1, 2}
Assets == {0, 2, Two53, Two53 + 1}
\* liquidity passed as a bigint in smallest units (api, ethers)
RequestedUnits == {1, 2, 1000, 2000}
\* liquidity passed in native units and scaled by 10 ** decimals (sim, viem)
RequestedNative == {1, 2}
Decimals == {0, 3}
\* on-chain state of the target market: liquidity 10, 2 or 0
TotalSupply == {20}
TotalBorrow == {10, 18, 20}

\* the allocations a source list is drawn from; amounts of 2^53 and more are
\* placed in the first market only (the market of an allocation enters neither
\* the ranking nor the walk, only the order of the encoded list)
SourceAllocation ==
  {a \in [vault : Vaults, market : Markets, assets : Assets] :
     a.market # 1 => a.assets < Two53}

RECURSIVE SeqsUpTo(_, _)
SeqsUpTo(S, n) ==
  IF n = 0 THEN {<<>>}
  ELSE LET shorter == SeqsUpTo(S, n - 1)
       IN  shorter \cup {Append(s, x) : s \in {t \in shorter : Len(t) = n - 1}, x \in S}

\* ------------------------------------------------------------------ helpers
Min(a, b) == IF a < b THEN a ELSE b

RECURSIVE Pow10(_)
Pow10(d) == IF d = 0 THEN 1 ELSE 10 * Pow10(d - 1)

RECURSIVE SumAssets(_)
SumAssets(items) ==
  IF items = <<>> THEN 0 ELSE Head(items).assets + SumAssets(Tail(items))

RECURSIVE SumAmounts(_)
SumAmounts(ws) ==
  IF ws = <<>> THEN 0 ELSE Head(ws).amount + SumAmounts(Tail(ws))

\* keccak256 of the abi-encoded market parameters: injective, and not
\* monotone in the parameters.
getMarketId(m) == IF m = 1 THEN 7 ELSE 3

\* Number(bigint): the nearest IEEE-754 double, ties to even.  Below 2^53
\* every integer is exact; in [2^53, 2^54) doubles are 2 apart, in
\* [2^54, 2^55) 4 apart, in [2^55, 2^56) 8 apart.
Ulp(h) == IF h = 0 THEN 1 ELSE IF h = 1 THEN 2 ELSE IF h < 4 THEN 4 ELSE 8

RoundHalfEven(l, u) ==
  LET q == l \div u
      r == l % u
  IN  IF 2 * r < u THEN q * u
      ELSE IF 2 * r > u THEN (q + 1) * u
      ELSE IF q % 2 = 0 THEN q * u ELSE (q + 1) * u

Number(x) ==
  LET h == x \div Two53
      l == x % Two53
  IN  h * Two53 + RoundHalfEven(l, Ulp(h))


\* ------------------------------------------------- ordered key/value objects
\* A JavaScript object with string keys is a sequence of entries in key
\* insertion order (vault addresses are never integer-like keys).
HasKey(obj, v) == \E i \in DOMAIN obj : obj[i].vault = v

Keys(obj) == [i \in DOMAIN obj |-> obj[i].vault]

\* the source list with the position of every item (src is used only to
\* relate a withdrawal to the allocation it was derived from)
Indexed(items) ==
  [i \in DOMAIN items |->
     [vault |-> items[i].vault, market |-> items[i].market,
      assets |-> items[i].assets, src |-> i]]

\* acc[vault] = (acc[vault] || 0n) + assets
AddToVaultTotal(acc, item) ==
  IF HasKey(acc, item.vault)
  THEN [i \in DOMAIN acc |->
          IF acc[i].vault = item.vault
          THEN [acc[i] EXCEPT !.total = @ + item.assets]
          ELSE acc[i]]
  ELSE Append(acc, [vault |-> item.vault, total |-> item.assets])

RECURSIVE vaultTotalAssets(_)
vaultTotalAssets(items) ==
  IF items = <<>> THEN <<>>
  ELSE AddToVaultTotal(vaultTotalAssets(SubSeq(items, 1, Len(items) - 1)),
                       items[Len(items)])

\* the sort comparator ([, a], [, b]) => Number(b) - Number(a)
compareVaults(a, b) == Number(b.total) - Number(a.total)

\* Array.prototype.sort is stable: an entry is placed after every entry the
\* comparator does not order after it.
InsertVault(sorted, x) ==
  LET later == {i \in DOMAIN sorted : compareVaults(sorted[i], x) > 0}
      k == IF later = {} THEN Len(sorted) + 1
           ELSE CHOOSE i \in later : \A j \in later : i <= j
  IN  SubSeq(sorted, 1, k - 1) \o <<x>> \o SubSeq(sorted, k, Len(sorted))

RECURSIVE SortVaults(_)
SortVaults(entries) ==
  IF entries = <<>> THEN <<>>
  ELSE InsertVault(SortVaults(SubSeq(entries, 1, Len(entries) - 1)),
                   entries[Len(entries)])

sortedVaults(items) == Keys(SortVaults(vaultTotalAssets(items)))

\* items.filter((item) => item.vault === vaultAddress)
vaultAllocations(items, v) == SelectSeq(items, LAMBDA it : it.vault = v)

\* faulty variant of Push: the list of a known vault is replaced, not extended
Push_replacing(obj, v, w) ==
  IF HasKey(obj, v)
  THEN [i \in DOMAIN obj |->
          IF obj[i].vault = v
          THEN [obj[i] EXCEPT !.withdrawals = <<w>>]
          ELSE obj[i]]
  ELSE Append(obj, [vault |-> v, withdrawals |-> <<w>>])

\* faulty variant of Push: a withdrawal from the market of the vault's last
\* withdrawal is merged into it
Push_merging(obj, v, w) ==
  IF HasKey(obj, v)
  THEN [i \in DOMAIN obj |->
          IF obj[i].vault = v
          THEN LET ws == obj[i].withdrawals
                   last == ws[Len(ws)]
               IN  IF /\ Len(ws) > 0
                      /\ "marketParams" \in DOMAIN w
                      /\ last.marketParams = w.marketParams
                   THEN [obj[i] EXCEPT !.withdrawals =
                           [ws EXCEPT ![Len(ws)].amount = @ + w.amount]]
                   ELSE [obj[i] EXCEPT !.withdrawals = Append(@, w)]
          ELSE obj[i]]
  ELSE Append(obj, [vault |-> v, withdrawals |-> <<w>>])

\* if (!obj[vault]) obj[vault] = []; obj[vault].push(w)
Push(obj, v, w) ==
  IF HasKey(obj, v)
  THEN [i \in DOMAIN obj |->
          IF obj[i].vault = v
          THEN [obj[i] EXCEPT !.withdrawals = Append(@, w)]
          ELSE obj[i]]
  ELSE Append(obj, [vault |-> v, withdrawals |-> <<w>>])

Withdrawal(item, amount) ==
  [marketParams |-> item.market, amount |-> amount, src |-> item.src]

\* every withdrawal of every vault group
AllWithdrawals(obj) ==
  UNION {{obj[i].withdrawals[j] : j \in DOMAIN obj[i].withdrawals} : i \in DOMAIN obj}

RECURSIVE SumPlan(_)
SumPlan(obj) ==
  IF obj = <<>> THEN 0
  ELSE SumAmounts(Head(obj).withdrawals) + SumPlan(Tail(obj))

\* a.localeCompare(b) on two market ids (lower-case hex of equal length)
localeCompare(a, b) == IF a < b THEN -1 ELSE IF a > b THEN 1 ELSE 0

\* faulty variant of compareWithdrawals: operands swapped
compareWithdrawals_swapped(a, b) ==
  localeCompare(getMarketId(b.marketParams), getMarketId(a.marketParams))

compareWithdrawals(a, b) ==
  localeCompare(getMarketId(a.marketParams), getMarketId(b.marketParams))

\* faulty variant of InsertWithdrawal: not stable, a withdrawal is placed
\* before the withdrawals of the same market id
InsertWithdrawal_beforeEqual(sorted, x) ==
  LET later == {i \in DOMAIN sorted : compareWithdrawals(sorted[i], x) >= 0}
      k == IF later = {} THEN Len(sorted) + 1
           ELSE CHOOSE i \in later : \A j \in later : i <= j
  IN  SubSeq(sorted, 1, k - 1) \o <<x>> \o SubSeq(sorted, k, Len(sorted))

InsertWithdrawal(sorted, x) ==
  LET later == {i \in DOMAIN sorted : compareWithdrawals(sorted[i], x) > 0}
      k == IF later = {} THEN Len(sorted) + 1
           ELSE CHOOSE i \in later : \A j \in later : i <= j
  IN  SubSeq(sorted, 1, k - 1) \o <<x>> \o SubSeq(sorted, k, Len(sorted))

RECURSIVE SortWithdrawals(_)
SortWithdrawals(ws) ==
  IF ws = <<>> THEN <<>>
  ELSE InsertWithdrawal(SortWithdrawals(SubSeq(ws, 1, Len(ws) - 1)), ws[Len(ws)])


\* -------------------------------------------------------------------- state
VARIABLES
  variant,                 \* which script runs
  requestedLiquidity,      \* the liquidity argument of the run
  decimals,                \* loanAsset.decimals of the target market
  totalSupplyAssets,       \* target market, as fetched
  totalBorrowAssets,
  sources,                 \* publicAllocatorSharedLiquidity / loader withdrawals
  pc,                      \* "start", "fetch", "load", "walk", "summary", "encode", "done"
  simulationResults,       \* sim: one result per individually simulated withdrawal
  candidates,              \* the allocations handed to the planner, in walk order
  liquidityNeeded,         \* the amount the planner sets out to cover
  remainingLiquidityNeeded,
  totalReallocated,
  withdrawalsPerVault,     \* the plan: vault -> withdrawals, in key order
  vaultQueue,              \* vaults the outer loop has not reached yet
  allocQueue,              \* allocations the inner loop has not reached yet
  isLiquidityFullyMatched,
  liquidityShortfall,
  multicall,               \* the encoded per-vault actions
  rawTransaction,          \* TRUE once a transaction has been produced
  reason,                  \* how the run ended
  publicAllocatorAddress,  \* "unfetched", "" (none returned) or "found"
  marketData,              \* "unfetched", "absent" (no marketByUniqueKey) or "found"
  plannerInvoked,          \* TRUE once the planning routine has been called
  returnedPlan,            \* the plan as the planner returned it
  invocation,              \* "first" or "second" run with the same arguments
  firstRun,                \* what the first run produced, once it is repeated
  onchainMarket,           \* viem: "unfetched", "failed" or "found" (Market.fetch)
  settled,                 \* viem: the fetches of Promise.all, in the order they settled
  rpcCalls                 \* the RPC facilities the run has used so far

vars ==
  <<variant, requestedLiquidity, decimals, totalSupplyAssets, totalBorrowAssets,
    sources, pc, simulationResults, candidates, liquidityNeeded,
    remainingLiquidityNeeded, totalReallocated, withdrawalsPerVault, vaultQueue,
    allocQueue, isLiquidityFullyMatched, liquidityShortfall, multicall,
    rawTransaction, reason, publicAllocatorAddress, marketData, plannerInvoked,
    returnedPlan, invocation, firstRun, onchainMarket, settled, rpcCalls>>

\* the second invocation and the record of the first
repeat == <<invocation, firstRun>>

inputs ==
  <<variant, requestedLiquidity, decimals, totalSupplyAssets, totalBorrowAssets,
    sources>>

\* state.liquidityAssets / market.liquidity of the target market
currentMarketLiquidity == totalSupplyAssets - totalBorrowAssets

\* requestedLiquidity * BigInt(10 ** decimals) in the scripts that take native
\* units; the other two take the amount in smallest units
scaledRequestedLiquidity ==
  IF variant \in {"sim", "viem"}
  THEN requestedLiquidity * Pow10(decimals)
  ELSE requestedLiquidity

Init ==
  /\ variant \in Variants
  /\ requestedLiquidity \in
       (IF variant \in {"sim", "viem"} THEN RequestedNative ELSE RequestedUnits)
  /\ decimals \in (IF variant \in {"sim", "viem"} THEN Decimals ELSE {0})
  /\ totalSupplyAssets \in TotalSupply
  /\ totalBorrowAssets \in TotalBorrow
  /\ sources \in SeqsUpTo(SourceAllocation, MaxSources)
  /\ pc = "start"
  /\ simulationResults = <<>>
  /\ candidates = <<>>
  /\ liquidityNeeded = 0
  /\ remainingLiquidityNeeded = 0
  /\ totalReallocated = 0
  /\ withdrawalsPerVault = <<>>
  /\ vaultQueue = <<>>
  /\ allocQueue = <<>>
  /\ isLiquidityFullyMatched = FALSE
  /\ liquidityShortfall = 0
  /\ multicall = <<>>
  /\ rawTransaction = FALSE
  /\ reason = "none"
  /\ publicAllocatorAddress = "unfetched"
  /\ marketData = "unfetched"
  /\ plannerInvoked = FALSE
  /\ returnedPlan = <<>>
  /\ invocation = "first"
  /\ firstRun = <<>>
  /\ onchainMarket = "unfetched"
  /\ settled = <<>>
  /\ rpcCalls = {}

\* what the fetches of the market and of the allocator address returned, kept
\* for every later step of the run
fetched == <<publicAllocatorAddress, marketData, onchainMarket>>

\* the progress of the run through its fetches and RPC calls
io == <<settled, rpcCalls>>

\* what a fetch over RPC can end in; a repeated run is answered as the first
\* one was
RpcResponses(previous) ==
  IF invocation = "first" THEN {"failed", "found"} ELSE {previous}

\* what a query of the upstream API can return; a repeated run is answered
\* as the first one was
Responses(previous) ==
  IF invocation = "first" THEN {"absent", "found"} ELSE {previous}

\* the planner is called and its walk begins: nothing planned yet
BeginWalk(items, order, needed) ==
  /\ plannerInvoked' = TRUE
  /\ candidates' = items
  /\ vaultQueue' = order
  /\ allocQueue' = <<>>
  /\ liquidityNeeded' = needed
  /\ remainingLiquidityNeeded' = needed
  /\ totalReallocated' = 0
  /\ withdrawalsPerVault' = <<>>
  /\ pc' = "walk"

\* the run returns before any planning
Return(why) ==
  /\ pc' = "done"
  /\ reason' = why
  /\ UNCHANGED <<candidates, vaultQueue, allocQueue, liquidityNeeded,
                 remainingLiquidityNeeded, totalReallocated, withdrawalsPerVault,
                 plannerInvoked>>

\* the run ends with an exception; invoked tells whether it was thrown by
\* the planning routine
Throw(why, invoked) ==
  /\ pc' = "done"
  /\ reason' = why
  /\ plannerInvoked' = invoked
  /\ UNCHANGED <<candidates, vaultQueue, allocQueue, liquidityNeeded,
                 remainingLiquidityNeeded, totalReallocated, withdrawalsPerVault>>

\* the run goes on to its next step, nothing planned yet
Proceed(to) ==
  /\ pc' = to
  /\ UNCHANGED <<candidates, vaultQueue, allocQueue, liquidityNeeded,
                 remainingLiquidityNeeded, totalReallocated, withdrawalsPerVault,
                 plannerInvoked, reason>>

\* outer loop: `if (remaining <= 0n) break;` then the vault's allocations
VisitVault ==
  /\ pc = "walk"
  /\ allocQueue = <<>>
  /\ IF vaultQueue = <<>> \/ remainingLiquidityNeeded <= 0
     THEN /\ pc' = "summary"
          /\ UNCHANGED <<vaultQueue, allocQueue>>
     ELSE /\ allocQueue' = vaultAllocations(candidates, Head(vaultQueue))
          /\ vaultQueue' = Tail(vaultQueue)
          /\ pc' = "walk"
  /\ UNCHANGED <<inputs, simulationResults, candidates, liquidityNeeded,
                 remainingLiquidityNeeded, totalReallocated, withdrawalsPerVault,
                 isLiquidityFullyMatched, liquidityShortfall, multicall,
                 rawTransaction, reason, fetched, plannerInvoked, returnedPlan,
                 repeat, io>>

\* inner loop: `if (remaining <= 0n) break;` then take from one allocation
TakeAllocation(amount) ==
  /\ pc = "walk"
  /\ allocQueue # <<>>
  /\ IF remainingLiquidityNeeded <= 0
     THEN /\ allocQueue' = <<>>
          /\ UNCHANGED <<remainingLiquidityNeeded, totalReallocated,
                         withdrawalsPerVault>>
     ELSE /\ remainingLiquidityNeeded' = remainingLiquidityNeeded - amount
          /\ totalReallocated' = totalReallocated + amount
          /\ withdrawalsPerVault' =
               Push(withdrawalsPerVault, Head(allocQueue).vault,
                    Withdrawal(Head(allocQueue), amount))
          /\ allocQueue' = Tail(allocQueue)
  /\ UNCHANGED <<inputs, pc, simulationResults, candidates, liquidityNeeded,
                 vaultQueue, isLiquidityFullyMatched, liquidityShortfall,
                 multicall, rawTransaction, reason, fetched, plannerInvoked,
                 returnedPlan, repeat, io>>


\* ------------------------------------------- scripts/apiBundler.ts ("api")
\* faulty variant of liquidityNeededFromReallocation_api: the liquidity
\* already in the target market is not deducted
liquidityNeededFromReallocation_api_gross(liquidity, availableLiquidity) ==
  (liquidity * BUFFER_FACTOR_NUMERATOR) \div BUFFER_FACTOR_DENOMINATOR

\* faulty variant of liquidityNeededFromReallocation_api: the buffered amount
\* is rounded up
liquidityNeededFromReallocation_api_roundedUp(liquidity, availableLiquidity) ==
  IF liquidity > availableLiquidity
  THEN ((liquidity - availableLiquidity) * BUFFER_FACTOR_NUMERATOR
          + BUFFER_FACTOR_DENOMINATOR - 1) \div BUFFER_FACTOR_DENOMINATOR
  ELSE 0

\* liquidityNeededFromReallocation, with the buffer factor
liquidityNeededFromReallocation_api(liquidity, availableLiquidity) ==
  IF liquidity > availableLiquidity
  THEN ((liquidity - availableLiquidity) * BUFFER_FACTOR_NUMERATOR)
         \div BUFFER_FACTOR_DENOMINATOR
  ELSE 0

\* faulty variant of amountToTake_api: the allocation is always taken in full
amountToTake_api_full(itemAmount, remaining) == itemAmount

amountToTake_api(itemAmount, remaining) ==
  IF itemAmount < remaining THEN itemAmount ELSE remaining

\* reallocateTo up to the walk of extractDataForReallocation.
\* queryPublicAllocatorAddress turns a missing address into "", which the
\* guard rejects.  queryMarketData turns a missing market into {}, which is
\* truthy: the guard `if (!marketData)` lets it through, and
\* extractDataForReallocation is called and throws a TypeError on
\* marketData.state.liquidityAssets.
ApiStart ==
  /\ variant = "api"
  /\ pc = "start"
  /\ \E address \in Responses(publicAllocatorAddress),
        market \in Responses(marketData) :
       /\ publicAllocatorAddress' = address
       /\ IF address = "absent"
          THEN /\ Throw("Error: Public Allocator Address not found", FALSE)
               /\ UNCHANGED marketData
          ELSE /\ marketData' = market
               /\ IF market = "absent"
                  THEN Throw("TypeError", TRUE)
                  ELSE /\ BeginWalk(Indexed(sources), sortedVaults(sources),
                                    liquidityNeededFromReallocation_api(
                                      requestedLiquidity, currentMarketLiquidity))
                       /\ UNCHANGED reason
  /\ UNCHANGED <<inputs, simulationResults, isLiquidityFullyMatched,
                 liquidityShortfall, multicall, rawTransaction, returnedPlan,
                 onchainMarket, repeat, io>>

\* faulty variant of ApiVisitVault: the next vault is any vault left, not the
\* first of the ranking
ApiVisitVault_anyVault ==
  /\ variant = "api"
  /\ pc = "walk"
  /\ allocQueue = <<>>
  /\ IF vaultQueue = <<>> \/ remainingLiquidityNeeded <= 0
     THEN /\ pc' = "summary"
          /\ UNCHANGED <<vaultQueue, allocQueue>>
     ELSE \E n \in DOMAIN vaultQueue :
            /\ allocQueue' = vaultAllocations(candidates, vaultQueue[n])
            /\ vaultQueue' = SubSeq(vaultQueue, 1, n - 1)
                               \o SubSeq(vaultQueue, n + 1, Len(vaultQueue))
            /\ pc' = "walk"
  /\ UNCHANGED <<inputs, simulationResults, candidates, liquidityNeeded,
                 remainingLiquidityNeeded, totalReallocated, withdrawalsPerVault,
                 isLiquidityFullyMatched, liquidityShortfall, multicall,
                 rawTransaction, reason, fetched, plannerInvoked, returnedPlan,
                 repeat, io>>

ApiVisitVault == variant = "api" /\ VisitVault

ApiTake ==
  /\ variant = "api"
  /\ TakeAllocation(amountToTake_api(Head(allocQueue).assets,
                                     remainingLiquidityNeeded))

\* faulty variant of ApiSummary: the shortfall is measured against the
\* buffered amount
ApiSummary_buffered ==
  /\ variant = "api"
  /\ pc = "summary"
  /\ LET totalLiquidityProvided == currentMarketLiquidity + totalReallocated
     IN  /\ liquidityShortfall' =
              (IF totalLiquidityProvided >= requestedLiquidity
               THEN 0 ELSE liquidityNeeded - totalReallocated)
         /\ isLiquidityFullyMatched' =
              (totalLiquidityProvided >= requestedLiquidity)
  /\ returnedPlan' = withdrawalsPerVault
  /\ pc' = "encode"
  /\ UNCHANGED <<inputs, simulationResults, candidates, liquidityNeeded,
                 remainingLiquidityNeeded, totalReallocated, withdrawalsPerVault,
                 vaultQueue, allocQueue, multicall, rawTransaction, reason,
                 fetched, plannerInvoked, repeat, io>>

\* the summary object of extractDataForReallocation
ApiSummary ==
  /\ variant = "api"
  /\ pc = "summary"
  /\ LET totalLiquidityProvided == currentMarketLiquidity + totalReallocated
     IN  /\ liquidityShortfall' =
              (IF totalLiquidityProvided >= requestedLiquidity
               THEN 0 ELSE requestedLiquidity - totalLiquidityProvided)
         /\ isLiquidityFullyMatched' =
              (totalLiquidityProvided >= requestedLiquidity)
  /\ returnedPlan' = withdrawalsPerVault
  /\ pc' = "encode"
  /\ UNCHANGED <<inputs, simulationResults, candidates, liquidityNeeded,
                 remainingLiquidityNeeded, totalReallocated, withdrawalsPerVault,
                 vaultQueue, allocQueue, multicall, rawTransaction, reason,
                 fetched, plannerInvoked, repeat, io>>

\* Object.keys(obj).map(vault => metaMorphoReallocateTo(allocator, vault, 0n,
\*   obj[vault].sort(byMarketId), supplyMarketParams)); sort() sorts in place
SortedInPlace(obj) ==
  [i \in DOMAIN obj |->
     [obj[i] EXCEPT !.withdrawals = SortWithdrawals(@)]]

\* faulty variant of EncodeActions: the last vault of the plan gets no action
EncodeActions_withoutLast(obj) ==
  [i \in 1..(Len(obj) - 1) |->
     [vault |-> obj[i].vault, fee |-> 0,
      withdrawals |-> SortWithdrawals(obj[i].withdrawals),
      supplyMarketParams |-> "target"]]

EncodeActions(obj) ==
  [i \in DOMAIN obj |->
     [vault |-> obj[i].vault, fee |-> 0,
      withdrawals |-> SortWithdrawals(obj[i].withdrawals),
      supplyMarketParams |-> "target"]]

\* reallocateTo: the multicall payload and rawTransaction.json
ApiEncode ==
  /\ variant = "api"
  /\ pc = "encode"
  /\ multicall' = EncodeActions(withdrawalsPerVault)
  /\ withdrawalsPerVault' = SortedInPlace(withdrawalsPerVault)
  /\ rawTransaction' = TRUE
  /\ reason' = "transaction"
  /\ pc' = "done"
  /\ UNCHANGED <<inputs, simulationResults, candidates, liquidityNeeded,
                 remainingLiquidityNeeded, totalReallocated, vaultQueue,
                 allocQueue, isLiquidityFullyMatched, liquidityShortfall,
                 fetched, plannerInvoked, returnedPlan, repeat, io>>

\* ------------------------------------------- the ethers SDK script ("ethers")
\* faulty variant of liquidityNeededFromReallocation_ethers: the current
\* liquidity is not deducted
liquidityNeededFromReallocation_ethers_gross(requested, current) == requested

\* calculateLiquidityMetrics: no buffer
liquidityNeededFromReallocation_ethers(requested, current) ==
  IF requested > current THEN requested - current ELSE 0

\* faulty variant of amountToTake_ethers: at most one unit is taken from an
\* allocation
amountToTake_ethers_unit(assets, remaining) ==
  IF assets < remaining THEN Min(assets, 1) ELSE Min(remaining, 1)

amountToTake_ethers(assets, remaining) ==
  IF assets < remaining THEN assets ELSE remaining

\* faulty variant of EthersStart: the loader is consulted whatever the
\* liquidity of the target market
EthersStart_alwaysLoads ==
  /\ variant = "ethers"
  /\ pc = "start"
  /\ \E market \in Responses(marketData) :
       /\ marketData' = market
       /\ IF market = "absent"
          THEN Throw("Error: Market data not found", FALSE)
          ELSE Proceed("load")
  /\ UNCHANGED <<inputs, simulationResults, isLiquidityFullyMatched,
                 liquidityShortfall, multicall, rawTransaction,
                 publicAllocatorAddress, onchainMarket, returnedPlan, repeat, io>>

\* compareAndReallocate up to the early return: the API metrics, the market
\* state and the comparison of the two amounts.  fetchMarketMetricsFromAPI
\* throws when the API has no market; the allocator address comes from the
\* chain configuration.
EthersStart ==
  /\ variant = "ethers"
  /\ pc = "start"
  /\ \E market \in Responses(marketData) :
       /\ marketData' = market
       /\ IF market = "absent"
          THEN Throw("Error: Market data not found", FALSE)
          ELSE IF currentMarketLiquidity >= requestedLiquidity
          THEN Return("sufficient liquidity")
          ELSE Proceed("load")
  /\ UNCHANGED <<inputs, simulationResults, isLiquidityFullyMatched,
                 liquidityShortfall, multicall, rawTransaction,
                 publicAllocatorAddress, onchainMarket, returnedPlan, repeat, io>>

\* compareAndReallocate from fetchMarketData(loader, marketId) to the walk of
\* processWithdrawals.  Without reallocatable liquidity the shortfall is
\* logged and the run returns.
EthersFetchMarketData ==
  /\ variant = "ethers"
  /\ pc = "load"
  /\ rpcCalls' = rpcCalls \cup {"loader.fetch"}
  /\ IF ~(Len(sources) > 0)
     THEN /\ Return("no reallocatable liquidity")
          /\ liquidityShortfall' = requestedLiquidity - currentMarketLiquidity
     ELSE IF liquidityNeededFromReallocation_ethers(requestedLiquidity,
                                                    currentMarketLiquidity) = 0
     THEN /\ Return("sufficient liquidity")
          /\ UNCHANGED liquidityShortfall
     ELSE /\ BeginWalk(Indexed(sources), sortedVaults(sources),
                       liquidityNeededFromReallocation_ethers(
                         requestedLiquidity, currentMarketLiquidity))
          /\ UNCHANGED <<reason, liquidityShortfall>>
  /\ UNCHANGED <<inputs, simulationResults, isLiquidityFullyMatched, multicall,
                 rawTransaction, fetched, returnedPlan, repeat, settled>>

EthersVisitVault == variant = "ethers" /\ VisitVault

EthersTake ==
  /\ variant = "ethers"
  /\ TakeAllocation(amountToTake_ethers(Head(allocQueue).assets,
                                        remainingLiquidityNeeded))

\* faulty variant of logReallocationSummary: strict comparison
logReallocationSummary_strict ==
  /\ variant = "ethers"
  /\ pc = "summary"
  /\ isLiquidityFullyMatched' =
       (currentMarketLiquidity + totalReallocated > requestedLiquidity)
  /\ liquidityShortfall' =
       (IF currentMarketLiquidity + totalReallocated > requestedLiquidity
        THEN 0
        ELSE requestedLiquidity - (currentMarketLiquidity + totalReallocated))
  /\ returnedPlan' = withdrawalsPerVault
  /\ pc' = "encode"
  /\ UNCHANGED <<inputs, simulationResults, candidates, liquidityNeeded,
                 remainingLiquidityNeeded, totalReallocated, withdrawalsPerVault,
                 vaultQueue, allocQueue, multicall, rawTransaction, reason,
                 fetched, plannerInvoked, repeat, io>>

logReallocationSummary ==
  /\ variant = "ethers"
  /\ pc = "summary"
  /\ isLiquidityFullyMatched' =
       (currentMarketLiquidity + totalReallocated >= requestedLiquidity)
  /\ liquidityShortfall' =
       (IF currentMarketLiquidity + totalReallocated >= requestedLiquidity
        THEN 0
        ELSE requestedLiquidity - (currentMarketLiquidity + totalReallocated))
  /\ returnedPlan' = withdrawalsPerVault
  /\ pc' = "encode"
  /\ UNCHANGED <<inputs, simulationResults, candidates, liquidityNeeded,
                 remainingLiquidityNeeded, totalReallocated, withdrawalsPerVault,
                 vaultQueue, allocQueue, multicall, rawTransaction, reason,
                 fetched, plannerInvoked, repeat, io>>

createAndSaveTransaction ==
  /\ variant = "ethers"
  /\ pc = "encode"
  /\ multicall' = EncodeActions(withdrawalsPerVault)
  /\ withdrawalsPerVault' = SortedInPlace(withdrawalsPerVault)
  /\ rawTransaction' = TRUE
  /\ reason' = "transaction"
  /\ pc' = "done"
  /\ UNCHANGED <<inputs, simulationResults, candidates, liquidityNeeded,
                 remainingLiquidityNeeded, totalReallocated, vaultQueue,
                 allocQueue, isLiquidityFullyMatched, liquidityShortfall,
                 fetched, plannerInvoked, returnedPlan, repeat, io>>


\* ------------------- scripts/api/apiPublicAllocatorSimulated.ts ("sim")
\* extractDataForReallocation: every allocation, grouped by vault
RECURSIVE extractDataForReallocation_sim(_)
extractDataForReallocation_sim(items) ==
  IF items = <<>> THEN <<>>
  ELSE Push(extractDataForReallocation_sim(SubSeq(items, 1, Len(items) - 1)),
            items[Len(items)].vault, items[Len(items)])

RECURSIVE Flatten(_)
Flatten(obj) ==
  IF obj = <<>> THEN <<>> ELSE Head(obj).withdrawals \o Flatten(Tail(obj))

\* faulty variant of simulateIndividualReallocations: the first simulation
\* that throws ends the loop
simulateIndividualReallocations_aborting(obj, ok) ==
  LET flat == Flatten(obj)
      thrown == {k \in DOMAIN flat : flat[k].src \notin ok}
      last == IF thrown = {} THEN Len(flat)
              ELSE CHOOSE k \in thrown : \A j \in thrown : k <= j
  IN  [k \in 1..last |->
         [success |-> flat[k].src \in ok, vaultAddress |-> flat[k].vault,
          withdrawal |-> flat[k],
          error |-> IF flat[k].src \in ok THEN "none" ELSE "message"]]

\* simulateIndividualReallocations: one result per (vault, withdrawal), in
\* the order of the grouped object; ok is the set of allocations whose
\* simulateContract call did not throw
simulateIndividualReallocations(obj, ok) ==
  LET flat == Flatten(obj)
  IN  [k \in DOMAIN flat |->
         [success |-> flat[k].src \in ok, vaultAddress |-> flat[k].vault,
          withdrawal |-> flat[k],
          error |-> IF flat[k].src \in ok THEN "none" ELSE "message"]]

\* the filter of reallocateRequestedLiquidity: a withdrawal is kept when some
\* successful result of its vault has the same market id
filteredWithdrawalsPerVault(obj, results) ==
  LET successful(v, w) ==
        \E k \in DOMAIN results :
          /\ results[k].vaultAddress = v
          /\ results[k].success
          /\ getMarketId(results[k].withdrawal.market) = getMarketId(w.market)
      kept == [i \in DOMAIN obj |->
                 [obj[i] EXCEPT !.withdrawals =
                    SelectSeq(@, LAMBDA w : successful(obj[i].vault, w))]]
  IN  SelectSeq(kept, LAMBDA e : Len(e.withdrawals) > 0)

\* faulty variant of amountToWithdraw: the remaining amount is always taken
amountToWithdraw_remaining(amount, remaining) == remaining

amountToWithdraw(amount, remaining) ==
  IF amount > remaining THEN remaining ELSE amount

\* the sets of allocations whose individual simulation can succeed; a
\* repeated run meets the chain state the first one met
SimulationOutcomes ==
  IF invocation = "first" THEN SUBSET (DOMAIN sources)
  ELSE {{simulationResults[k].withdrawal.src :
           k \in {j \in DOMAIN simulationResults : simulationResults[j].success}}}

\* reallocateRequestedLiquidity up to the walk of processWithdrawals.  A
\* missing allocator address is rejected; a missing market arrives as {} and
\* the run throws a TypeError on marketData.loanAsset.decimals.
SimStart ==
  /\ variant = "sim"
  /\ pc = "start"
  /\ \E address \in Responses(publicAllocatorAddress),
        market \in Responses(marketData) :
       /\ publicAllocatorAddress' = address
       /\ IF address = "absent"
          THEN /\ Throw("Error: Public Allocator Address not found", FALSE)
               /\ UNCHANGED <<marketData, simulationResults, rpcCalls>>
          ELSE /\ marketData' = market
               /\ IF market = "absent"
                  THEN /\ Throw("TypeError", FALSE)
                       /\ UNCHANGED <<simulationResults, rpcCalls>>
                  ELSE IF scaledRequestedLiquidity < currentMarketLiquidity
                  THEN /\ Return("sufficient liquidity")
                       /\ UNCHANGED <<simulationResults, rpcCalls>>
                  ELSE \E ok \in SimulationOutcomes :
                         LET grouped == extractDataForReallocation_sim(Indexed(sources))
                             results == simulateIndividualReallocations(grouped, ok)
                             filtered == filteredWithdrawalsPerVault(grouped, results)
                         IN  /\ rpcCalls' = rpcCalls \cup {"initializeClient"}
                             /\ simulationResults' = results
                             /\ BeginWalk(Flatten(filtered), Keys(filtered),
                                          scaledRequestedLiquidity
                                            - currentMarketLiquidity)
                             /\ UNCHANGED reason
  /\ UNCHANGED <<inputs, isLiquidityFullyMatched, liquidityShortfall, multicall,
                 rawTransaction, onchainMarket, returnedPlan, repeat, settled>>

\* delete processedWithdrawals[vault] when its list is empty
DeleteIfEmpty(obj, v) ==
  SelectSeq(obj, LAMBDA e : ~(e.vault = v /\ Len(e.withdrawals) = 0))

\* outer loop of processWithdrawals: break, or processed[vault] = []
SimVisitVault ==
  /\ variant = "sim"
  /\ pc = "walk"
  /\ allocQueue = <<>>
  /\ IF vaultQueue = <<>> \/ remainingLiquidityNeeded <= 0
     THEN /\ pc' = "summary"
          /\ UNCHANGED <<vaultQueue, allocQueue, withdrawalsPerVault>>
     ELSE LET v == Head(vaultQueue)
              withdrawals == vaultAllocations(candidates, v)
              created == Append(withdrawalsPerVault,
                                [vault |-> v, withdrawals |-> <<>>])
          IN  /\ allocQueue' = withdrawals
              /\ vaultQueue' = Tail(vaultQueue)
              /\ withdrawalsPerVault' =
                   (IF withdrawals = <<>> THEN DeleteIfEmpty(created, v)
                    ELSE created)
              /\ pc' = "walk"
  /\ UNCHANGED <<inputs, simulationResults, candidates, liquidityNeeded,
                 remainingLiquidityNeeded, totalReallocated,
                 isLiquidityFullyMatched, liquidityShortfall, multicall,
                 rawTransaction, reason, fetched, plannerInvoked, returnedPlan,
                 repeat, io>>

\* inner loop of processWithdrawals; the emptiness check runs when it ends
SimTake ==
  /\ variant = "sim"
  /\ pc = "walk"
  /\ allocQueue # <<>>
  /\ LET w == Head(allocQueue)
         amount == amountToWithdraw(w.assets, remainingLiquidityNeeded)
         stop == remainingLiquidityNeeded <= 0
         rest == IF stop THEN <<>> ELSE Tail(allocQueue)
         pushed == IF stop THEN withdrawalsPerVault
                   ELSE Push(withdrawalsPerVault, w.vault, Withdrawal(w, amount))
     IN  /\ allocQueue' = rest
         /\ withdrawalsPerVault' =
              (IF rest = <<>> THEN DeleteIfEmpty(pushed, w.vault) ELSE pushed)
         /\ totalReallocated' =
              (IF stop THEN totalReallocated ELSE totalReallocated + amount)
         /\ remainingLiquidityNeeded' =
              (IF stop THEN remainingLiquidityNeeded
               ELSE remainingLiquidityNeeded - amount)
  /\ UNCHANGED <<inputs, pc, simulationResults, candidates, liquidityNeeded,
                 vaultQueue, isLiquidityFullyMatched, liquidityShortfall,
                 multicall, rawTransaction, reason, fetched, plannerInvoked,
                 returnedPlan, repeat, io>>

\* what processWithdrawals returns, and the "Missing" amount of the report
SimSummary ==
  /\ variant = "sim"
  /\ pc = "summary"
  /\ isLiquidityFullyMatched' = (remainingLiquidityNeeded <= 0)
  /\ liquidityShortfall' =
       (IF remainingLiquidityNeeded <= 0 THEN 0
        ELSE liquidityNeeded - totalReallocated)
  /\ returnedPlan' = withdrawalsPerVault
  /\ pc' = "encode"
  /\ UNCHANGED <<inputs, simulationResults, candidates, liquidityNeeded,
                 remainingLiquidityNeeded, totalReallocated, withdrawalsPerVault,
                 vaultQueue, allocQueue, multicall, rawTransaction, reason,
                 fetched, plannerInvoked, repeat, io>>

\* the final multicall is built and simulated only when something was planned
SimEncode ==
  /\ variant = "sim"
  /\ pc = "encode"
  /\ IF totalReallocated > 0
     THEN /\ multicall' = EncodeActions(withdrawalsPerVault)
          /\ withdrawalsPerVault' = SortedInPlace(withdrawalsPerVault)
          /\ reason' = "final simulation"
     ELSE /\ reason' = "nothing reallocated"
          /\ UNCHANGED <<multicall, withdrawalsPerVault>>
  /\ pc' = "done"
  /\ UNCHANGED <<inputs, simulationResults, candidates, liquidityNeeded,
                 remainingLiquidityNeeded, totalReallocated, vaultQueue,
                 allocQueue, isLiquidityFullyMatched, liquidityShortfall,
                 rawTransaction, fetched, plannerInvoked, returnedPlan, repeat, io>>


\* ------------------------------- scripts/sdks/viem/sdkBundler.ts ("viem")
\* MarketUtils.getUtilization(...) > DEFAULT_SUPPLY_TARGET_UTILIZATION, where
\* getUtilization is wDivUp(borrow, supply), and MAX_UINT_256 (or 0 without
\* borrow) on an empty market
utilizationAboveTarget(supply, borrow) ==
  IF supply = 0 THEN borrow > 0
  ELSE borrow * TARGET_UTILIZATION_DEN > TARGET_UTILIZATION_NUM * supply

\* MathLib.wDivDown(newTotalBorrowAssets, target) - newTotalSupplyAssets
requiredAssets(supply, borrow) ==
  ((borrow * TARGET_UTILIZATION_DEN) \div TARGET_UTILIZATION_NUM) - supply

\* the two fetches handed to Promise.all
Fetches == {"apiMetrics", "market"}

InFlight == Fetches \ {settled[k] : k \in DOMAIN settled}

\* compareAndReallocate up to Promise.all: client and loader are initialised
\* and the two fetches are issued together
ViemStart ==
  /\ variant = "viem"
  /\ pc = "start"
  /\ settled' = <<>>
  /\ Proceed("fetch")
  /\ UNCHANGED <<inputs, simulationResults, isLiquidityFullyMatched,
                 liquidityShortfall, multicall, rawTransaction, fetched,
                 returnedPlan, repeat, rpcCalls>>

\* fetchMarketMetricsFromAPI settles: it throws when the API has no market,
\* which rejects Promise.all and ends the run in the catch block
ViemMetricsSettle ==
  /\ variant = "viem"
  /\ pc = "fetch"
  /\ "apiMetrics" \in InFlight
  /\ settled' = Append(settled, "apiMetrics")
  /\ \E market \in Responses(marketData) :
       /\ marketData' = market
       /\ IF market = "absent"
          THEN Throw("Error: Market data not found", FALSE)
          ELSE Proceed("fetch")
  /\ UNCHANGED <<inputs, simulationResults, isLiquidityFullyMatched,
                 liquidityShortfall, multicall, rawTransaction,
                 publicAllocatorAddress, onchainMarket, returnedPlan, repeat,
                 rpcCalls>>

\* Market.fetch(marketId, client) settles: a failed RPC request rejects
\* Promise.all and ends the run in the catch block
ViemMarketSettle ==
  /\ variant = "viem"
  /\ pc = "fetch"
  /\ "market" \in InFlight
  /\ settled' = Append(settled, "market")
  /\ \E state \in RpcResponses(onchainMarket) :
       /\ onchainMarket' = state
       /\ IF state = "failed"
          THEN Throw("Error: RPC request failed", FALSE)
          ELSE Proceed("fetch")
  /\ UNCHANGED <<inputs, simulationResults, isLiquidityFullyMatched,
                 liquidityShortfall, multicall, rawTransaction,
                 publicAllocatorAddress, marketData, returnedPlan, repeat,
                 rpcCalls>>

\* faulty variant of ViemCheck: the run goes on as soon as one of the two
\* fetches has settled
ViemCheck_afterFirst ==
  /\ variant = "viem"
  /\ pc = "fetch"
  /\ settled # <<>>
  /\ LET newTotalBorrowAssets == totalBorrowAssets + scaledRequestedLiquidity
     IN  IF ~utilizationAboveTarget(totalSupplyAssets, newTotalBorrowAssets)
         THEN Return("success: no reallocation needed")
         ELSE Proceed("load")
  /\ UNCHANGED <<inputs, simulationResults, isLiquidityFullyMatched,
                 liquidityShortfall, multicall, rawTransaction, fetched,
                 returnedPlan, repeat, io>>

\* the continuation of `await Promise.all([...])`: both results are there,
\* in the order of the array, and the utilization check decides whether
\* reallocation is needed
ViemCheck ==
  /\ variant = "viem"
  /\ pc = "fetch"
  /\ InFlight = {}
  /\ LET newTotalBorrowAssets == totalBorrowAssets + scaledRequestedLiquidity
     IN  IF ~utilizationAboveTarget(totalSupplyAssets, newTotalBorrowAssets)
         THEN Return("success: no reallocation needed")
         ELSE Proceed("load")
  /\ UNCHANGED <<inputs, simulationResults, isLiquidityFullyMatched,
                 liquidityShortfall, multicall, rawTransaction, fetched,
                 returnedPlan, repeat, io>>

\* compareAndReallocate from fetchMarketData(loader, marketId) to the loop of
\* processReallocations; the order in which the two fetches settled is not
\* kept any further, nothing after the await can observe it
ViemFetchMarketData ==
  /\ variant = "viem"
  /\ pc = "load"
  /\ rpcCalls' = rpcCalls \cup {"loader.fetch"}
  /\ settled' = <<>>
  /\ LET newTotalBorrowAssets == totalBorrowAssets + scaledRequestedLiquidity
     IN  IF ~(Len(sources) > 0)
         THEN Return("error: no reallocatable liquidity")
         ELSE /\ plannerInvoked' = TRUE
              /\ candidates' = Indexed(sources)
              /\ allocQueue' = Indexed(sources)
              /\ vaultQueue' = <<>>
              /\ liquidityNeeded' =
                   requiredAssets(totalSupplyAssets, newTotalBorrowAssets)
              /\ remainingLiquidityNeeded' =
                   requiredAssets(totalSupplyAssets, newTotalBorrowAssets)
              /\ totalReallocated' = 0
              /\ withdrawalsPerVault' = <<>>
              /\ pc' = "walk"
              /\ UNCHANGED reason
  /\ UNCHANGED <<inputs, simulationResults, isLiquidityFullyMatched,
                 liquidityShortfall, multicall, rawTransaction, fetched,
                 returnedPlan, repeat>>

\* if (!reallocations[vault]) reallocations[vault] = []
InitKey(obj, v) ==
  IF HasKey(obj, v) THEN obj
  ELSE Append(obj, [vault |-> v, withdrawals |-> <<>>])

\* one iteration of the loop of processReallocations
processReallocations ==
  /\ variant = "viem"
  /\ pc = "walk"
  /\ allocQueue # <<>>
  /\ LET w == Head(allocQueue)
         fulfils == w.assets > remainingLiquidityNeeded
         taken == IF fulfils THEN remainingLiquidityNeeded ELSE w.assets
     IN  /\ withdrawalsPerVault' =
              Push(InitKey(withdrawalsPerVault, w.vault), w.vault,
                   Withdrawal(w, taken))
         /\ remainingLiquidityNeeded' =
              (IF fulfils THEN remainingLiquidityNeeded
               ELSE remainingLiquidityNeeded - w.assets)
         /\ allocQueue' = (IF fulfils THEN <<>> ELSE Tail(allocQueue))
         /\ pc' = (IF fulfils \/ Tail(allocQueue) = <<>> THEN "summary" ELSE "walk")
  /\ UNCHANGED <<inputs, simulationResults, candidates, liquidityNeeded,
                 totalReallocated, vaultQueue, isLiquidityFullyMatched,
                 liquidityShortfall, multicall, rawTransaction, reason, fetched,
                 plannerInvoked, returnedPlan, repeat, io>>

\* faulty variant of ViemSummary: strict comparison
ViemSummary_strict ==
  /\ variant = "viem"
  /\ pc = "summary"
  /\ LET total == SumPlan(withdrawalsPerVault)
         matched == currentMarketLiquidity + total > scaledRequestedLiquidity
     IN  /\ totalReallocated' = total
         /\ isLiquidityFullyMatched' = matched
         /\ liquidityShortfall' =
              (IF matched THEN 0
               ELSE scaledRequestedLiquidity - (currentMarketLiquidity + total))
  /\ returnedPlan' = withdrawalsPerVault
  /\ pc' = "encode"
  /\ UNCHANGED <<inputs, simulationResults, candidates, liquidityNeeded,
                 remainingLiquidityNeeded, withdrawalsPerVault, vaultQueue,
                 allocQueue, multicall, rawTransaction, reason, fetched,
                 plannerInvoked, repeat, io>>

\* totalReallocated, isLiquidityFullyMatched and liquidityShortfall of
\* result.reallocation
ViemSummary ==
  /\ variant = "viem"
  /\ pc = "summary"
  /\ LET total == SumPlan(withdrawalsPerVault)
         matched == currentMarketLiquidity + total >= scaledRequestedLiquidity
     IN  /\ totalReallocated' = total
         /\ isLiquidityFullyMatched' = matched
         /\ liquidityShortfall' =
              (IF matched THEN 0
               ELSE scaledRequestedLiquidity - (currentMarketLiquidity + total))
  /\ returnedPlan' = withdrawalsPerVault
  /\ pc' = "encode"
  /\ UNCHANGED <<inputs, simulationResults, candidates, liquidityNeeded,
                 remainingLiquidityNeeded, withdrawalsPerVault, vaultQueue,
                 allocQueue, multicall, rawTransaction, reason, fetched,
                 plannerInvoked, repeat, io>>

\* Object.keys(withdrawalsPerVault).sort(): ascending vault address
RECURSIVE SortKeys(_)
SortKeys(obj) ==
  IF obj = <<>> THEN <<>>
  ELSE LET lowest == CHOOSE i \in DOMAIN obj :
                       \A j \in DOMAIN obj : obj[i].vault <= obj[j].vault
       IN  <<obj[lowest]>> \o
           SortKeys(SubSeq(obj, 1, lowest - 1) \o SubSeq(obj, lowest + 1, Len(obj)))

\* vaultWithdrawals.sort((a, b) => (a.marketId > b.marketId ? 1 : -1)): the
\* comparator never returns 0, so the order of withdrawals of one market is
\* left to the engine; every arrangement ascending by market id can result
sortByMarketId(ws) ==
  {[k \in DOMAIN ws |-> ws[p[k]]] : p \in
     {q \in Permutations(DOMAIN ws) :
        \A k \in DOMAIN ws : k < Len(ws) =>
          getMarketId(ws[q[k]].marketParams) <= getMarketId(ws[q[k + 1]].marketParams)}}

SortedInPlaceViem(obj) ==
  {o \in [DOMAIN obj -> UNION {{[obj[i] EXCEPT !.withdrawals = s] :
                                   s \in sortByMarketId(obj[i].withdrawals)} :
                                 i \in DOMAIN obj}] :
     \A i \in DOMAIN obj :
       /\ o[i].vault = obj[i].vault
       /\ o[i].withdrawals \in sortByMarketId(obj[i].withdrawals)}

\* faulty variant of ViemEncode: a transaction only for a fully matched
\* request
ViemEncode_onlyWhenMatched ==
  /\ variant = "viem"
  /\ pc = "encode"
  /\ IF totalReallocated > 0 /\ isLiquidityFullyMatched
     THEN \E sorted \in SortedInPlaceViem(withdrawalsPerVault) :
            /\ withdrawalsPerVault' = sorted
            /\ multicall' =
                 [i \in DOMAIN sorted |->
                    [vault |-> SortKeys(sorted)[i].vault, fee |-> 0,
                     withdrawals |-> SortKeys(sorted)[i].withdrawals,
                     supplyMarketParams |-> "target"]]
            /\ rawTransaction' = TRUE
     ELSE UNCHANGED <<withdrawalsPerVault, multicall, rawTransaction>>
  /\ reason' = (IF isLiquidityFullyMatched THEN "success: transaction generated"
                ELSE "error: not fully matched")
  /\ pc' = "done"
  /\ UNCHANGED <<inputs, simulationResults, candidates, liquidityNeeded,
                 remainingLiquidityNeeded, totalReallocated, vaultQueue,
                 allocQueue, isLiquidityFullyMatched, liquidityShortfall,
                 fetched, plannerInvoked, returnedPlan, repeat, io>>

\* faulty variant of ViemEncode: the transaction is generated whatever the
\* total reallocated
ViemEncode_unconditional ==
  /\ variant = "viem"
  /\ pc = "encode"
  /\ \E sorted \in SortedInPlaceViem(withdrawalsPerVault) :
       /\ withdrawalsPerVault' = sorted
       /\ multicall' =
            [i \in DOMAIN sorted |->
               [vault |-> SortKeys(sorted)[i].vault, fee |-> 0,
                withdrawals |-> SortKeys(sorted)[i].withdrawals,
                supplyMarketParams |-> "target"]]
       /\ rawTransaction' = TRUE
  /\ reason' = (IF isLiquidityFullyMatched THEN "success: transaction generated"
                ELSE "error: not fully matched")
  /\ pc' = "done"
  /\ UNCHANGED <<inputs, simulationResults, candidates, liquidityNeeded,
                 remainingLiquidityNeeded, totalReallocated, vaultQueue,
                 allocQueue, isLiquidityFullyMatched, liquidityShortfall,
                 fetched, plannerInvoked, returnedPlan, repeat, io>>

\* the rawTransaction and the reason of compareAndReallocate
ViemEncode ==
  /\ variant = "viem"
  /\ pc = "encode"
  /\ IF totalReallocated > 0
     THEN \E sorted \in SortedInPlaceViem(withdrawalsPerVault) :
            /\ withdrawalsPerVault' = sorted
            /\ multicall' =
                 [i \in DOMAIN sorted |->
                    [vault |-> SortKeys(sorted)[i].vault, fee |-> 0,
                     withdrawals |-> SortKeys(sorted)[i].withdrawals,
                     supplyMarketParams |-> "target"]]
            /\ rawTransaction' = TRUE
     ELSE UNCHANGED <<withdrawalsPerVault, multicall, rawTransaction>>
  /\ reason' = (IF isLiquidityFullyMatched THEN "success: transaction generated"
                ELSE "error: not fully matched")
  /\ pc' = "done"
  /\ UNCHANGED <<inputs, simulationResults, candidates, liquidityNeeded,
                 remainingLiquidityNeeded, totalReallocated, vaultQueue,
                 allocQueue, isLiquidityFullyMatched, liquidityShortfall,
                 fetched, plannerInvoked, returnedPlan, repeat, io>>

\* ---------------------------------------------------- a repeated invocation
\* how a run ends without a plan: the early returns and the exceptions
EarlyReturns ==
  {"sufficient liquidity", "no reallocatable liquidity",
   "success: no reallocation needed", "error: no reallocatable liquidity"}

Failures ==
  {"Error: Public Allocator Address not found", "Error: Market data not found",
   "Error: RPC request failed", "TypeError"}

\* the planner has run and returned its plan
PlanReturned ==
  \/ pc \in {"summary", "encode"}
  \/ pc = "done" /\ reason \notin EarlyReturns \cup Failures

\* The entry point is called once more with the same arguments, against the
\* same upstream data, after a run that returned a plan; what the first run
\* produced is kept for comparison.
Replan ==
  /\ pc = "done"
  /\ invocation = "first"
  /\ PlanReturned
  /\ firstRun' =
       <<[withdrawalsPerVault |-> returnedPlan,
          totalReallocated |-> totalReallocated,
          isLiquidityFullyMatched |-> isLiquidityFullyMatched,
          liquidityShortfall |-> liquidityShortfall,
          multicall |-> multicall]>>
  /\ invocation' = "second"
  /\ pc' = "start"
  /\ candidates' = <<>>
  /\ liquidityNeeded' = 0
  /\ remainingLiquidityNeeded' = 0
  /\ totalReallocated' = 0
  /\ withdrawalsPerVault' = <<>>
  /\ vaultQueue' = <<>>
  /\ allocQueue' = <<>>
  /\ isLiquidityFullyMatched' = FALSE
  /\ liquidityShortfall' = 0
  /\ multicall' = <<>>
  /\ rawTransaction' = FALSE
  /\ reason' = "none"
  /\ plannerInvoked' = FALSE
  /\ returnedPlan' = <<>>
  /\ settled' = <<>>
  /\ rpcCalls' = {}
  /\ UNCHANGED <<inputs, fetched, simulationResults>>

\* ------------------------------------------------------------ specification
Next ==
  \/ Replan
  \/ ApiStart \/ ApiVisitVault \/ ApiTake \/ ApiSummary \/ ApiEncode
  \/ EthersStart \/ EthersFetchMarketData \/ EthersVisitVault \/ EthersTake
  \/ logReallocationSummary \/ createAndSaveTransaction
  \/ SimStart \/ SimVisitVault \/ SimTake \/ SimSummary \/ SimEncode
  \/ ViemStart \/ ViemMetricsSettle \/ ViemMarketSettle \/ ViemCheck
  \/ ViemFetchMarketData \/ processReallocations \/ ViemSummary \/ ViemEncode

Spec == Init /\ [][Next]_vars


\* ------------------------------------------------------------- properties
\* requested minus the liquidity already in the target market, 0 when that is
\* not positive
TargetShortfall ==
  IF scaledRequestedLiquidity > currentMarketLiquidity
  THEN scaledRequestedLiquidity - currentMarketLiquidity
  ELSE 0

\* totalReallocated is known (the viem script sums the plan after the walk)
TotalKnown ==
  IF variant = "viem" THEN PlanReturned /\ pc # "summary" ELSE PlanReturned

\* the amount each planner sets out to cover, from the inputs of the run
AmountToCover ==
  CASE variant = "api" ->
         (TargetShortfall * BUFFER_FACTOR_NUMERATOR) \div BUFFER_FACTOR_DENOMINATOR
    [] variant = "viem" ->
         requiredAssets(totalSupplyAssets,
                        totalBorrowAssets + scaledRequestedLiquidity)
    [] OTHER -> TargetShortfall

\* C1 as stated: in the api, ethers and sim planners the total reallocated
\* never exceeds the target shortfall.
C1_NeverExceedsShortfall ==
  variant \in {"api", "ethers", "sim"} => totalReallocated <= TargetShortfall

\* C1 amended: the total reallocated never exceeds the amount the planner
\* sets out to cover, which is the target shortfall in the ethers and sim
\* planners and floor(shortfall * 1001 / 1000) in apiBundler.
C1_NeverExceedsAmountToCover ==
  variant \in {"api", "ethers", "sim"} => totalReallocated <= AmountToCover

C1_Witness ==
  /\ variant = "api"
  /\ pc = "done"
  /\ totalReallocated > TargetShortfall
  /\ totalReallocated = AmountToCover

\* C2: the amounts of all withdrawals of all vault groups add up to
\* totalReallocated, after every step of the walk and in the returned plan
\* (in the viem script, from the moment the total is computed).
C2_SumEqualsTotal ==
  (variant = "viem" => TotalKnown) =>
    SumPlan(withdrawalsPerVault) = totalReallocated

C2_Witness ==
  /\ pc = "walk"
  /\ variant \in {"api", "ethers"}
  /\ Len(withdrawalsPerVault) = 1
  /\ Len(withdrawalsPerVault[1].withdrawals) = 2
  /\ totalReallocated > 2
  /\ allocQueue = <<>>

\* C3: every withdrawal has an amount between 0 and the available amount of
\* the source allocation it was derived from, and that allocation's market
\* parameters.
C3_WithinSource ==
  \A w \in AllWithdrawals(withdrawalsPerVault) :
    /\ w.src \in DOMAIN sources
    /\ 0 <= w.amount
    /\ w.amount <= sources[w.src].assets
    /\ w.marketParams = sources[w.src].market

C3_Witness ==
  /\ pc = "done"
  /\ \E w \in AllWithdrawals(withdrawalsPerVault) :
       0 < w.amount /\ w.amount < sources[w.src].assets
  /\ \E w \in AllWithdrawals(withdrawalsPerVault) :
       0 < w.amount /\ w.amount = sources[w.src].assets

\* C4 as stated: the total reallocated is min(T, sum of all source amounts),
\* T the target shortfall (the required assets in the viem script).
C4_TotalIsMinOfShortfall ==
  TotalKnown =>
    totalReallocated =
      Min(IF variant = "viem" THEN AmountToCover ELSE TargetShortfall,
          SumAssets(candidates))

\* C4 amended: the total reallocated is min(A, sum of all source amounts),
\* A the amount the planner sets out to cover: the target shortfall, except
\* in apiBundler where it is floor(shortfall * 1001 / 1000).
C4_TotalIsMinOfAmountToCover ==
  TotalKnown => totalReallocated = Min(AmountToCover, SumAssets(candidates))

C4_Witness ==
  /\ pc = "done"
  /\ PlanReturned
  /\ Len(candidates) = 2
  /\ 0 < SumAssets(candidates)
  /\ SumAssets(candidates) < AmountToCover
  /\ totalReallocated = SumAssets(candidates)


\* C5: fully_matched holds exactly when the liquidity in the target plus the
\* total reallocated reaches the requested liquidity; the shortfall is 0 when
\* fully matched and otherwise requested - (available + reallocated) > 0.
C5_SummaryConsistent ==
  (PlanReturned /\ pc \in {"encode", "done"}) =>
    /\ isLiquidityFullyMatched <=>
         (currentMarketLiquidity + totalReallocated >= scaledRequestedLiquidity)
    /\ isLiquidityFullyMatched => liquidityShortfall = 0
    /\ ~isLiquidityFullyMatched =>
         /\ liquidityShortfall =
              scaledRequestedLiquidity - (currentMarketLiquidity + totalReallocated)
         /\ liquidityShortfall > 0

C5_Witness ==
  /\ pc = "done"
  /\ PlanReturned
  /\ totalReallocated > 0
  /\ ~isLiquidityFullyMatched
  /\ liquidityShortfall > 0

\* C6: in every encoded per-vault action the withdrawals are in ascending
\* order of market id (adjacent ids non-decreasing).
C6_ActionsSortedByMarketId ==
  \A i \in DOMAIN multicall :
    \A k \in DOMAIN multicall[i].withdrawals :
      k < Len(multicall[i].withdrawals) =>
        getMarketId(multicall[i].withdrawals[k].marketParams)
          <= getMarketId(multicall[i].withdrawals[k + 1].marketParams)

\* an action whose two withdrawals were planned in descending id order
C6_Witness ==
  /\ pc = "done"
  /\ \E i \in DOMAIN multicall :
       /\ Len(multicall[i].withdrawals) = 2
       /\ getMarketId(multicall[i].withdrawals[1].marketParams)
            < getMarketId(multicall[i].withdrawals[2].marketParams)
       /\ multicall[i].withdrawals[1].src > multicall[i].withdrawals[2].src

\* exact aggregate amount of a vault, and its first position in the sources
AggregateAmount(v) == SumAssets(vaultAllocations(sources, v))

FirstAppearance(v) ==
  CHOOSE i \in DOMAIN sources :
    /\ sources[i].vault = v
    /\ \A j \in DOMAIN sources : sources[j].vault = v => i <= j

\* the vaults in the order the walk reached them, followed by the vaults it
\* had not reached when it stopped
VisitSequence == Keys(withdrawalsPerVault) \o vaultQueue

\* C7: the api and ethers planners visit the vaults in descending order of
\* aggregate amount, vaults of equal aggregate in order of first appearance:
\* in the returned plan every vault ranks before the vaults visited after it
\* and before the vaults never reached.
C7_VisitOrderDescending ==
  (variant \in {"api", "ethers"} /\ PlanReturned /\ withdrawalsPerVault # <<>>) =>
    \A i, j \in DOMAIN VisitSequence :
      i < j =>
        \/ AggregateAmount(VisitSequence[i]) > AggregateAmount(VisitSequence[j])
        \/ /\ AggregateAmount(VisitSequence[i]) = AggregateAmount(VisitSequence[j])
           /\ FirstAppearance(VisitSequence[i]) < FirstAppearance(VisitSequence[j])

\* C8: no key of the returned plan maps to an empty list, and a vault becomes
\* a key only while some shortfall remains to be covered.
C8_KeysOnlyForPlannedVaults ==
  /\ [](PlanReturned =>
          \A i \in DOMAIN withdrawalsPerVault :
            Len(withdrawalsPerVault[i].withdrawals) > 0)
  /\ [][\A v \in Vaults :
          (HasKey(withdrawalsPerVault', v) /\ ~HasKey(withdrawalsPerVault, v))
            => remainingLiquidityNeeded > 0]_vars

\* C9: every withdrawal planned by the api, ethers and sim planners has a
\* strictly positive amount.
C9_AmountsPositive ==
  variant \in {"api", "ethers", "sim"} =>
    \A w \in AllWithdrawals(withdrawalsPerVault) : w.amount > 0

\* C10: when the target shortfall is 0, the api and sim planners (and the
\* ethers script, which then does not plan at all) return no vault entry and
\* reallocate 0, and the summary reports the request as fully matched.
C10_NothingPlannedWithoutShortfall ==
  (variant \in {"api", "ethers", "sim"} /\ TargetShortfall = 0) =>
    /\ withdrawalsPerVault = <<>>
    /\ totalReallocated = 0
    /\ (PlanReturned /\ pc \in {"encode", "done"}) => isLiquidityFullyMatched

C10_Witness ==
  /\ pc = "done"
  /\ PlanReturned
  /\ variant = "sim"
  /\ TargetShortfall = 0
  /\ candidates # <<>>
  /\ isLiquidityFullyMatched

\* the run ended with an exception
Failed == pc = "done" /\ reason \in Failures

\* C11: with an empty source list the api, ethers and sim scripts end
\* normally with no vault entry, nothing reallocated and no withdrawal
\* encoded; the whole target shortfall is reported, and the fully-matched
\* flag, where the script computes one, says whether that shortfall is 0.
C11_EmptySourcesEmptyPlan ==
  (variant \in {"api", "ethers", "sim"} /\ sources = <<>> /\ pc = "done"
     /\ ~Failed) =>
    /\ withdrawalsPerVault = <<>>
    /\ totalReallocated = 0
    /\ multicall = <<>>
    /\ liquidityShortfall = TargetShortfall
    /\ reason # "sufficient liquidity" =>
         (isLiquidityFullyMatched <=> (TargetShortfall = 0))

C11_Witness ==
  /\ variant = "api"
  /\ sources = <<>>
  /\ pc = "done"
  /\ reason = "transaction"
  /\ TargetShortfall = 1000
  /\ liquidityShortfall = 1000
  /\ ~isLiquidityFullyMatched
  /\ withdrawalsPerVault = <<>>

\* the positions in the source list of the allocations of a vault, ascending
VaultSourceIndices(v) ==
  SelectSeq([i \in DOMAIN sources |-> i], LAMBDA i : sources[i].vault = v)

\* the k-th withdrawal of a vault comes from the k-th allocation of that
\* vault in the source list, and from that allocation alone
InSourceOrder(plan) ==
  \A i \in DOMAIN plan :
    LET ws == plan[i].withdrawals
        occurrences == VaultSourceIndices(plan[i].vault)
    IN  /\ Len(ws) <= Len(occurrences)
        /\ \A k \in DOMAIN ws :
             /\ ws[k].src = occurrences[k]
             /\ ws[k].marketParams = sources[occurrences[k]].market
             /\ ws[k].amount <= sources[occurrences[k]].assets

\* every allocation of the source list has its withdrawal in the plan
EveryOccurrencePlanned(plan) ==
  \A s \in DOMAIN sources :
    \E i \in DOMAIN plan :
      /\ plan[i].vault = sources[s].vault
      /\ \E k \in DOMAIN plan[i].withdrawals : plan[i].withdrawals[k].src = s

\* C12: the api and ethers planners do not merge allocations of the same
\* (vault, market) pair: every allocation the walk visits yields its own
\* withdrawal, in source order within the vault, at every step of the walk
\* and in the plan returned.
C12_OccurrencesNotMerged ==
  variant \in {"api", "ethers"} =>
    /\ pc \in {"walk", "summary", "encode"} => InSourceOrder(withdrawalsPerVault)
    /\ InSourceOrder(returnedPlan)
    /\ (pc = "encode" /\ remainingLiquidityNeeded > 0) =>
         EveryOccurrencePlanned(returnedPlan)

\* two allocations of one (vault, market) pair: the first taken in full, the
\* second in part
C12_Witness ==
  /\ variant \in {"api", "ethers"}
  /\ pc = "encode"
  /\ Len(returnedPlan) = 1
  /\ LET ws == returnedPlan[1].withdrawals
     IN  /\ Len(ws) = 2
         /\ ws[1].marketParams = ws[2].marketParams
         /\ ws[1].amount = sources[ws[1].src].assets
         /\ ws[1].amount > 0
         /\ 0 < ws[2].amount
         /\ ws[2].amount < sources[ws[2].src].assets
         /\ ws[1].amount + ws[2].amount = liquidityNeeded

\* the encoding step has run: always in the api and ethers scripts, and only
\* when something was reallocated in the sim and viem scripts
Encoded ==
  /\ pc = "done"
  /\ PlanReturned
  /\ variant \in {"sim", "viem"} => totalReallocated > 0

\* C13: the encoder emits one action for every vault key of the plan and no
\* other action; each action carries fee 0, the withdrawal list of its vault
\* and the supply-target market parameters.
C13_OneActionPerVaultKey ==
  Encoded =>
    /\ Len(multicall) = Len(withdrawalsPerVault)
    /\ \A a \in DOMAIN multicall : HasKey(withdrawalsPerVault, multicall[a].vault)
    /\ \A i \in DOMAIN withdrawalsPerVault :
         /\ Cardinality({a \in DOMAIN multicall :
                           multicall[a].vault = withdrawalsPerVault[i].vault}) = 1
         /\ \A a \in DOMAIN multicall :
              multicall[a].vault = withdrawalsPerVault[i].vault =>
                /\ multicall[a].fee = 0
                /\ multicall[a].withdrawals = withdrawalsPerVault[i].withdrawals
                /\ multicall[a].supplyMarketParams = "target"

\* two vaults encoded by the viem script, whose actions follow the sorted
\* vault addresses and not the key order of the plan
C13_Witness ==
  /\ Encoded
  /\ variant = "viem"
  /\ Len(multicall) = 2
  /\ Len(withdrawalsPerVault) = 2
  /\ multicall[1].vault = withdrawalsPerVault[2].vault
  /\ multicall[1].withdrawals # <<>>

\* the position of a withdrawal in a list (withdrawals of one list come from
\* different allocations)
PositionIn(ws, w) == CHOOSE k \in DOMAIN ws : ws[k] = w

C15_NothingMutatedAfterConstruction ==
  /\ [][sources' = sources]_vars
  /\ []((PlanReturned /\ pc \in {"encode", "done"}) =>
          withdrawalsPerVault = returnedPlan)

C17_AbsentDataStopsBeforePlanning ==
  (marketData = "absent" \/ publicAllocatorAddress = "absent") =>
    /\ Failed
    /\ ~plannerInvoked
    /\ multicall = <<>>
    /\ ~rawTransaction

\* C18: in the api, ethers and viem scripts a shortfall the sources cannot
\* cover ends no run with an exception: the summary reports not fully matched
\* with a positive shortfall, and whenever something was reallocated a
\* transaction carrying the partial plan is produced.
C18_PartialPlanStillEncoded ==
  (variant \in {"api", "ethers", "viem"} /\ pc = "done" /\ marketData = "found"
     /\ publicAllocatorAddress # "absent" /\ onchainMarket # "failed") =>
    /\ ~Failed
    /\ (PlanReturned /\ SumAssets(sources) < TargetShortfall) =>
         ~isLiquidityFullyMatched
    /\ (PlanReturned /\ ~isLiquidityFullyMatched) =>
         /\ liquidityShortfall > 0
         /\ totalReallocated > 0 =>
              /\ rawTransaction
              /\ multicall # <<>>
              /\ SumPlan(multicall) = totalReallocated

\* the viem script reports an unmatched request and still produces the
\* transaction of the partial plan
C18_Witness ==
  /\ variant = "viem"
  /\ pc = "done"
  /\ reason = "error: not fully matched"
  /\ SumAssets(sources) < TargetShortfall
  /\ ~isLiquidityFullyMatched
  /\ liquidityShortfall > 0
  /\ totalReallocated > 0
  /\ rawTransaction
  /\ SumPlan(multicall) = totalReallocated

\* the planning routine of the api or ethers script is running or has
\* returned
Planning ==
  /\ variant \in {"api", "ethers"}
  /\ plannerInvoked
  /\ marketData = "found"

\* C19 as stated: the amount the greedy walk of the api and ethers planners
\* sets out to cover is exactly the target shortfall.
C19_WalkCoversExactShortfall ==
  Planning =>
    /\ liquidityNeeded = TargetShortfall
    /\ pc = "walk" => remainingLiquidityNeeded + totalReallocated = TargetShortfall

\* C19 amended: the walk of the ethers planner sets out to cover exactly the
\* target shortfall; the planning routine of apiBundler applies the buffer
\* itself and sets out to cover floor(shortfall * 1001 / 1000).
C19_WalkCoversBufferedShortfall ==
  Planning =>
    /\ variant = "ethers" => liquidityNeeded = TargetShortfall
    /\ variant = "api" =>
         liquidityNeeded =
           (TargetShortfall * BUFFER_FACTOR_NUMERATOR) \div BUFFER_FACTOR_DENOMINATOR
    /\ pc = "walk" => remainingLiquidityNeeded + totalReallocated = liquidityNeeded

\* the walk of apiBundler under way towards more than the shortfall
C19_Witness ==
  /\ variant = "api"
  /\ pc = "walk"
  /\ liquidityNeeded > TargetShortfall
  /\ totalReallocated > 0
  /\ remainingLiquidityNeeded > 0
  /\ remainingLiquidityNeeded + totalReallocated = liquidityNeeded

\* C20: in the api and ethers planners a vault of strictly larger aggregate
\* amount is never visited after a vault of smaller aggregate amount,
\* whatever the magnitude of the amounts.
C20_LargerAggregateVisitedFirst ==
  (Planning /\ pc \in {"walk", "summary", "encode"} /\ withdrawalsPerVault # <<>>) =>
    \A i, j \in DOMAIN VisitSequence :
      i < j => AggregateAmount(VisitSequence[i]) >= AggregateAmount(VisitSequence[j])

\* the check of the SDK scripts that the target market lacks liquidity for
\* the request: current < requested in the ethers script, post-borrow
\* utilization above the target in the viem script
ReallocationNeeded ==
  IF variant = "viem"
  THEN utilizationAboveTarget(totalSupplyAssets,
                              totalBorrowAssets + scaledRequestedLiquidity)
  ELSE currentMarketLiquidity < requestedLiquidity

\* the run concluded that no reallocation is needed
NoReallocationNeeded ==
  /\ pc = "done"
  /\ reason \in {"sufficient liquidity", "success: no reallocation needed"}

\* C21: in the ethers and viem scripts the loader is fetched only by the step
\* that follows the liquidity check, only in a run whose check found the
\* target market short of liquidity, and never in a run that concludes that
\* no reallocation is needed.
C21_LoaderFetchedOnlyWhenNeeded ==
  /\ [](variant \in {"ethers", "viem"} =>
         /\ pc = "load" => (ReallocationNeeded /\ marketData = "found")
         /\ "loader.fetch" \in rpcCalls =>
              (ReallocationNeeded /\ marketData = "found")
         /\ NoReallocationNeeded => "loader.fetch" \notin rpcCalls)
  /\ [][("loader.fetch" \in rpcCalls' /\ "loader.fetch" \notin rpcCalls) =>
          (variant \in {"ethers", "viem"} /\ pc = "load")]_vars

\* the viem script fetches the loader although the target market holds the
\* requested amount: its check is on the utilization after the borrow
C21_Witness ==
  /\ variant = "viem"
  /\ "loader.fetch" \in rpcCalls
  /\ pc = "walk"
  /\ currentMarketLiquidity >= scaledRequestedLiquidity

\* result.reason.type of the viem script, "none" while result.reason is unset
reasonType ==
  IF reason \in {"success: no reallocation needed",
                 "success: transaction generated"}
  THEN "success"
  ELSE IF reason \in {"error: no reallocatable liquidity",
                      "error: not fully matched"}
  THEN "error"
  ELSE "none"

\* C22: in the viem script the API-metrics fetch and the on-chain market
\* fetch settle in either order; the run passes the await only when both
\* have completed, the decision then taken depends on the fetched data alone
\* and not on which fetch settled first, and a failure of either fetch
\* rejects the call with no reallocation, no raw transaction and no reason.
C22_FetchesJoinedBeforeDecision ==
  /\ [](variant = "viem" =>
         /\ (pc \notin {"start", "fetch"} /\ ~Failed) =>
              (marketData = "found" /\ onchainMarket = "found")
         /\ (marketData = "absent" \/ onchainMarket = "failed") => Failed
         /\ Failed =>
              /\ returnedPlan = <<>>
              /\ withdrawalsPerVault = <<>>
              /\ multicall = <<>>
              /\ ~rawTransaction
              /\ reasonType = "none")
  /\ [][(variant = "viem" /\ pc = "fetch" /\ pc' # "fetch" /\ ~Failed') =>
          /\ {settled[k] : k \in DOMAIN settled} = Fetches
          /\ pc' = (IF ReallocationNeeded THEN "load" ELSE "done")
          /\ reason' = (IF ReallocationNeeded THEN reason
                        ELSE "success: no reallocation needed")]_vars

\* the on-chain fetch settled before the API fetch and the run went on to the
\* loader
C22_Witness ==
  /\ variant = "viem"
  /\ pc = "load"
  /\ settled = <<"market", "apiMetrics">>
  /\ marketData = "found"
  /\ onchainMarket = "found"

\* the withdrawals of a plan in the order the walk produced them, the amount
\* each one left available in its source allocation, and what the
\* withdrawals before the k-th one had already covered
InWalkOrder(plan) == Flatten(plan)

LeftInSource(w) == sources[w.src].assets - w.amount

CoveredBefore(ws, k) == SumAmounts(SubSeq(ws, 1, k - 1))

GreedyShape(plan) ==
  LET ws == InWalkOrder(plan)
  IN  /\ \A k \in DOMAIN ws : k < Len(ws) => LeftInSource(ws[k]) = 0
      /\ Cardinality({k \in DOMAIN ws : LeftInSource(ws[k]) > 0}) <= 1
      /\ \A k \in DOMAIN ws : CoveredBefore(ws, k) < liquidityNeeded
      /\ \A k \in DOMAIN ws :
           LeftInSource(ws[k]) > 0 => CoveredBefore(ws, k + 1) = liquidityNeeded

\* C23: in the api, ethers and sim planners every withdrawal except possibly
\* the last, in the order of the walk, takes its source allocation in full;
\* at most one withdrawal is partial, and it covers exactly what remained; no
\* withdrawal is made once the amount to cover has been reached.
C23_GreedyShape ==
  variant \in {"api", "ethers", "sim"} =>
    /\ pc \in {"walk", "summary", "encode"} => GreedyShape(withdrawalsPerVault)
    /\ GreedyShape(returnedPlan)
    /\ (pc = "walk" /\ remainingLiquidityNeeded <= 0) =>
         SumPlan(withdrawalsPerVault) = liquidityNeeded

\* a returned plan of two vaults: the first allocation taken in full, the
\* second in part, and the walk stopped there
C23_Witness ==
  /\ variant = "sim"
  /\ pc = "encode"
  /\ Len(returnedPlan) = 2
  /\ LET ws == InWalkOrder(returnedPlan)
     IN  /\ Len(ws) = 2
         /\ ws[1].amount > 0
         /\ LeftInSource(ws[1]) = 0
         /\ ws[2].amount > 0
         /\ LeftInSource(ws[2]) > 0
  /\ remainingLiquidityNeeded = 0

\* a list of withdrawals as the encoder passes it on: market parameters and
\* amounts
Encodable(ws) ==
  [k \in DOMAIN ws |->
     [marketParams |-> ws[k].marketParams, amount |-> ws[k].amount]]

\* the same withdrawals appended in any other order
Rearrangements(ws) ==
  {[k \in DOMAIN ws |-> ws[p[k]]] : p \in Permutations(DOMAIN ws)}

\* what the sort of a script can make of a list
SortedBy(script, ws) ==
  IF script = "viem" THEN sortByMarketId(ws) ELSE {SortWithdrawals(ws)}

\* C24: the sorted list of a vault group depends on the withdrawals of the
\* group only, not on the order they were appended in: whatever the order in
\* which the withdrawals the planner returned for a vault are appended, the
\* sort yields the list the encoded action carries, also when a market id
\* occurs more than once in the group.
C24_SortedListCanonical ==
  Encoded =>
    \A a \in DOMAIN multicall :
      \A i \in DOMAIN returnedPlan :
        returnedPlan[i].vault = multicall[a].vault =>
          \A appended \in Rearrangements(returnedPlan[i].withdrawals) :
            \A sorted \in SortedBy(variant, appended) :
              Encodable(sorted) = Encodable(multicall[a].withdrawals)

\* C25: in the loop of processReallocations, once the amounts emitted add up
\* to the required assets, no further reallocation entry is emitted and no
\* further vault key is created, also when the assets of a withdrawal equal
\* the remaining required assets exactly.
C25_StopsWhenRequiredAssetsCovered ==
  [][(variant = "viem" /\ pc = "walk" /\ withdrawalsPerVault # <<>>
        /\ SumPlan(withdrawalsPerVault) = liquidityNeeded) =>
       withdrawalsPerVault' = withdrawalsPerVault]_vars

\* the individual simulation of the allocation at position src succeeded
OwnSimulationSucceeded(src) ==
  \E k \in DOMAIN simulationResults :
    /\ simulationResults[k].withdrawal.src = src
    /\ simulationResults[k].success

\* C26: in the sim script only the withdrawals whose own simulation succeeded
\* are handed to processWithdrawals and can reach the plan and the final
\* transaction, also when another withdrawal of the same vault and market
\* simulated successfully; vaults without a successful withdrawal are left
\* out.
C26_OnlySimulatedWithdrawalsPlanned ==
  variant = "sim" =>
    /\ \A k \in DOMAIN candidates : OwnSimulationSucceeded(candidates[k].src)
    /\ \A w \in AllWithdrawals(withdrawalsPerVault) : OwnSimulationSucceeded(w.src)
    /\ \A a \in DOMAIN multicall :
         \A k \in DOMAIN multicall[a].withdrawals :
           OwnSimulationSucceeded(multicall[a].withdrawals[k].src)

\* the (vault, withdrawal) pairs handed to simulateIndividualReallocations,
\* in the order its loops go through them
SimulationInput == Flatten(extractDataForReallocation_sim(Indexed(sources)))

\* C27: simulateIndividualReallocations returns one result for every (vault,
\* withdrawal) pair of its input, in input order, each carrying the vault and
\* the withdrawal it simulated; a simulation that throws is recorded with
\* success = false and the error message, the simulations after it are still
\* run, and the function does not reject: the run goes on to the planner.
C27_SimulationFailuresIsolated ==
  [][(variant = "sim" /\ "initializeClient" \notin rpcCalls
        /\ "initializeClient" \in rpcCalls') =>
       /\ [k \in DOMAIN simulationResults' |-> simulationResults'[k].withdrawal]
            = SimulationInput
       /\ \A k \in DOMAIN simulationResults' :
            /\ simulationResults'[k].vaultAddress
                 = simulationResults'[k].withdrawal.vault
            /\ simulationResults'[k].success <=>
                 simulationResults'[k].error = "none"
            /\ ~simulationResults'[k].success =>
                 simulationResults'[k].error = "message"
       /\ pc' = "walk"
       /\ plannerInvoked']_vars

\* a simulation that threw, followed by one that succeeded
C27_Witness ==
  /\ variant = "sim"
  /\ pc = "walk"
  /\ Len(simulationResults) = 2
  /\ ~simulationResults[1].success
  /\ simulationResults[1].error = "message"
  /\ simulationResults[2].success
  /\ simulationResults[1].vaultAddress # simulationResults[2].vaultAddress

\* C28: in the sim script, when the target market already holds the
\* requested amount (requested <= current liquidity), the run returns before
\* the RPC client is initialised, before any simulation and before any
\* planning, and no transaction is generated.
C28_EnoughLiquidityReturnsEarly ==
  (variant = "sim" /\ pc # "start" /\ publicAllocatorAddress = "found"
     /\ marketData = "found"
     /\ scaledRequestedLiquidity <= currentMarketLiquidity) =>
    /\ pc = "done"
    /\ reason = "sufficient liquidity"
    /\ "initializeClient" \notin rpcCalls
    /\ simulationResults = <<>>
    /\ ~plannerInvoked
    /\ multicall = <<>>
    /\ ~rawTransaction

\* C29: in the ethers and viem scripts a raw transaction exists only in a run
\* whose check found reallocation necessary and whose loader fetch returned
\* at least one withdrawal, and in the viem script only when the total
\* reallocated is positive; a run that ends in "no reallocation needed" or
\* "no reallocatable liquidity" produces none.
C29_TransactionOnlyAfterLoaderWithdrawals ==
  variant \in {"ethers", "viem"} =>
    /\ rawTransaction =>
         /\ ReallocationNeeded
         /\ "loader.fetch" \in rpcCalls
         /\ Len(sources) > 0
         /\ plannerInvoked
         /\ multicall # <<>>
         /\ variant = "viem" => totalReallocated > 0
    /\ (pc = "done" /\ reason \in EarlyReturns) =>
         (~rawTransaction /\ multicall = <<>>)

\* the ethers script has written the transaction of a plan over two vaults
C29_Witness ==
  /\ variant = "ethers"
  /\ pc = "done"
  /\ rawTransaction
  /\ "loader.fetch" \in rpcCalls
  /\ Len(multicall) = 2
  /\ totalReallocated > 0

\* C30: every normal return of the viem script has a reason; its type is
\* "success" exactly when no reallocation was needed (then no reallocation
\* and no raw transaction are set) or the reallocation is fully matched
\* (current liquidity + total reallocated >= scaled requested liquidity), and
\* "error" when the loader has no reallocatable liquidity or the request is
\* not fully matched, in which case the shortfall reported is positive.
C30_ReasonTypeMatchesOutcome ==
  (variant = "viem" /\ pc = "done" /\ ~Failed) =>
    /\ reasonType \in {"success", "error"}
    /\ reasonType = "success" <=>
         \/ ~ReallocationNeeded
         \/ /\ sources # <<>>
            /\ currentMarketLiquidity + totalReallocated >= scaledRequestedLiquidity
    /\ ~ReallocationNeeded =>
         (~PlanReturned /\ returnedPlan = <<>> /\ ~rawTransaction)
    /\ reasonType = "error" <=>
         /\ ReallocationNeeded
         /\ \/ sources = <<>>
            \/ currentMarketLiquidity + totalReallocated < scaledRequestedLiquidity
    /\ (reasonType = "error" /\ sources # <<>>) =>
         /\ PlanReturned
         /\ ~isLiquidityFullyMatched
         /\ liquidityShortfall > 0

\* a request that the reallocation matches exactly: the liquidity of the
\* target market plus the total reallocated equals the scaled request
C30_Witness ==
  /\ variant = "viem"
  /\ pc = "done"
  /\ reasonType = "success"
  /\ PlanReturned
  /\ totalReallocated > 0
  /\ currentMarketLiquidity + totalReallocated = scaledRequestedLiquidity
  /\ rawTransaction

====
